---- MODULE Spec2Model ----
(***************************************************************************)
(* A model of ncm2mp3.py: the NCM container decoder dump_ncm, the cover    *)
(* downloader download_pic, and the batch driver main/_convert_one.        *)
(*                                                                         *)
(* Spec          dump_ncm section by section, with the files it touches    *)
(* SpecKeystream the key schedule swap by swap and the audio loop byte by  *)
(*               byte                                                      *)
(* SpecDownload  download_pic attempt by attempt                           *)
(* SpecBatch     main: the directory walk and the pool of _convert_one     *)
(***************************************************************************)
EXTENDS Integers, Sequences, FiniteSets, TLC

VARIABLES
  \* ---- the arguments and the environment of one dump_ncm call
  debug,        \* Python's __debug__: FALSE under -O, where assert is dropped
  input,        \* the container at input_fp
  arg_fp,       \* the extension of the output_fp argument
  fs0,          \* the audio files of the output directory before the call
  fs,           \* the audio files of the output directory, by extension
  cover,        \* the temporary cover file .cover_<name><ext>
  part,         \* download_pic's temporary file save_fn + ".part"
  \* ---- dump_ncm
  pc,           \* position in dump_ncm
  err,          \* the exception dump_ncm ended with, "" for none
  failedAt,     \* the position the exception was raised at
  result,       \* the path dump_ncm returned
  key_data,     \* the seed key (line 112)
  key_box,      \* the keystream table (line 115)
  ki,           \* the loop index i of the key schedule (line 119)
  c, last, off, \* the accumulators of the key schedule (lines 116-118)
  meta,         \* the metadata mapping (line 133)
  output_fp,    \* the extension of the final output path (line 144)
  unpadArg,     \* the argument of the last call of unpad
  unpadRes,     \* what that call returned
  payloadLen,   \* bytes of audio payload in the input after the thumbnail
  pos,          \* the read cursor of f, relative to the start of the payload
  n,            \* len(chunk) of the chunk being decoded (line 152)
  i,            \* the position counter of the decode loop (line 153)
  decoded,      \* payload bytes decoded so far, over all chunks
  outByte,      \* the last byte the decode loop produced (line 156)
  refByte,      \* the same ciphertext byte decoded with one counter 1..len(payload)
  \* ---- download_pic and the cover handling of dump_ncm
  dl_pc,        \* "idle", "attempt", "returned", "raised"
  retries,      \* download_pic's retries argument
  backoff,      \* download_pic's backoff argument
  attempt,      \* the loop variable of download_pic (line 39)
  slept,        \* the arguments of time.sleep so far (line 54)
  dl_log,       \* how each attempt so far ended
  mime,         \* the value download_pic returned
  coverRaised,  \* add_cover_2_mp3 raised
  \* ---- main and its pool of _convert_one workers
  dir,          \* the file names of the directory main walks
  formats,      \* the format hint in the metadata of each of them
  poolSize,     \* max_workers
  bpc,          \* position in main: "walk", "pool", "done"
  task,         \* the state of the conversion of each collected file
  ofile,        \* the audio files of the output directory, by path
  writers,      \* the conversions that hold each audio path open for writing
  cwriters,     \* the conversions that hold each cover path open for writing
  reaped,       \* the futures main has taken the result of
  okCount       \* main's counter ok

inVars == <<debug, input, arg_fp, fs0>>
fileVars == <<fs, cover, part>>
ctlVars == <<pc, err, failedAt, result>>
keyVars == <<key_data, key_box, ki, c, last, off>>
metaVars == <<meta, output_fp>>
unpadVars == <<unpadArg, unpadRes>>
loopVars == <<payloadLen, pos, n, i, decoded, outByte, refByte>>
dlVars == <<dl_pc, retries, backoff, attempt, slept, dl_log, mime, coverRaised>>
batchVars == <<dir, formats, poolSize, bpc, task, ofile, writers, cwriters, reaped, okCount>>
callVars == <<inVars, fileVars, ctlVars, keyVars, metaVars, unpadVars, loopVars, dlVars>>

vars == <<callVars, batchVars>>

----------------------------------------------------------------------------
(* Bytes and the pure helpers of dump_ncm. *)

Byte == 0..255

RECURSIVE XorBits(_, _, _)
XorBits(a, b, k) ==
  IF k = 0 THEN 0
  ELSE (((a % 2) + (b % 2)) % 2) + 2 * XorBits(a \div 2, b \div 2, k - 1)

\* chunk[i - 1] ^= key_box[idx] on byte operands
Xor(a, b) == XorBits(a, b, 8)

Min(a, b) == IF a < b THEN a ELSE b

\* s[k:] of Python
DropFirst(s, k) == IF k >= Len(s) THEN <<>> ELSE SubSeq(s, k + 1, Len(s))

\* 'CTENFDAM', the value line 103 compares the header with
Magic == <<67, 84, 69, 78, 70, 68, 65, 77>>

\* A faulty variant, under which C6 fails: 0x8000 typed as the decimal 8000.
ChunkSizeDecimal == 8 * 1000

\* f.read(0x8000)
ChunkSize == 32768

\* unpad (line 98) on a bytes value: s[:-s[-1]].  s[-1] of an empty s raises
\* IndexError.  A slice never raises: s[:-0] is s[:0], the empty value, and
\* s[:-n] with n > len(s) has its end clamped to 0, the empty value again.
unpad(s) ==
  IF Len(s) = 0 THEN [ok |-> FALSE, val |-> <<>>]
  ELSE LET k == s[Len(s)]
       IN  [ok  |-> TRUE,
            val |-> IF k = 0 \/ k > Len(s) THEN <<>> ELSE SubSeq(s, 1, Len(s) - k)]

\* key_box = bytearray(range(256))
IdentityBox == [x \in Byte |-> x]

\* A faulty variant, under which C7 fails: the swap written as two assignments, the first overwriting
\* the value the second needs.
KsaStepLostSwap(st, kd, ix) ==
  LET swap == st.box[ix]
      cc   == (swap + st.last + kd[st.off + 1]) % 256
  IN  [box  |-> [st.box EXCEPT ![ix] = st.box[cc]],
       c    |-> cc,
       last |-> cc,
       off  |-> (st.off + 1) % Len(kd)]

\* The body of "for i in range(256)" of the key schedule, on the loop state
\* st = [box, c, last, off].  key_data[off] on an empty key_data raises
\* IndexError, which the callers test before the step.
KsaStep(st, kd, ix) ==
  LET swap == st.box[ix]
      cc   == (swap + st.last + kd[st.off + 1]) % 256
  IN  [box  |-> [st.box EXCEPT ![ix] = st.box[cc], ![cc] = swap],
       c    |-> cc,
       last |-> cc,
       off  |-> (st.off + 1) % Len(kd)]

KsaInit == [box |-> IdentityBox, c |-> 0, last |-> 0, off |-> 0]

\* The loop of lines 119-124 from index lo up to hi, by halves.
RECURSIVE KsaRange(_, _, _, _)
KsaRange(st, kd, lo, hi) ==
  IF hi = lo THEN st
  ELSE IF hi = lo + 1 THEN KsaStep(st, kd, lo)
  ELSE LET mid  == (lo + hi) \div 2
           left == KsaRange(st, kd, lo, mid)
       IN  IF left.c \in Byte THEN KsaRange(left, kd, mid, hi) ELSE left

\* The whole key schedule: the loop state after the 256 swaps.
KsaRun(kd) == KsaRange(KsaInit, kd, 0, 256)

\* j = i & 0xFF
CounterByte(p) == p % 256

\* The keystream byte for position counter p (lines 154-156).
KeystreamByte(box, p) ==
  LET j   == CounterByte(p)
      idx == (box[j] + box[(box[j] + j) % 256]) % 256
  IN  box[idx]

\* A faulty variant, under which C5 fails: range(1, n) for range(1, n + 1), the last byte left encrypted.
DecodeChunkOffByOne(box, chunk) ==
  [k \in 1..Len(chunk) |->
     IF k < Len(chunk) THEN Xor(chunk[k], KeystreamByte(box, k)) ELSE chunk[k]]

\* Lines 153-156 on one chunk: the counter runs 1..len(chunk).
DecodeChunk(box, chunk) ==
  [k \in 1..Len(chunk) |-> Xor(chunk[k], KeystreamByte(box, k))]

\* bytes.decode("utf-8") on the texts of this model, which are ASCII or hold
\* the byte 0xFF (never valid in UTF-8): UnicodeDecodeError on a byte >= 0x80.
Utf8Decode(b) ==
  IF \E k \in 1..Len(b) : b[k] >= 128 THEN [ok |-> FALSE, val |-> <<>>]
  ELSE [ok |-> TRUE, val |-> b]

\* The JSON texts of this model.
TextEmptyObject == <<123, 125>>                      \* {}
TextFlac ==                                          \* {"format":"flac"}
  <<123, 34, 102, 111, 114, 109, 97, 116, 34, 58, 34, 102, 108, 97, 99, 34, 125>>
TextMp3Pic ==                      \* {"format":"mp3","albumPic":"http://p/c.jpg"}
  <<123, 34, 102, 111, 114, 109, 97, 116, 34, 58, 34, 109, 112, 51, 34, 44, 34,
    97, 108, 98, 117, 109, 80, 105, 99, 34, 58, 34, 104, 116, 116, 112, 58, 47,
    47, 112, 47, 99, 46, 106, 112, 103, 34, 125>>
TextFlacPic ==                    \* {"format":"FLAC","albumPic":"http://p/c.jpg"}
  <<123, 34, 102, 111, 114, 109, 97, 116, 34, 58, 34, 70, 76, 65, 67, 34, 44, 34,
    97, 108, 98, 117, 109, 80, 105, 99, 34, 58, 34, 104, 116, 116, 112, 58, 47,
    47, 112, 47, 99, 46, 106, 112, 103, 34, 125>>
TextList == <<91, 93>>                               \* []
TextBroken == <<123, 34, 102, 111, 114, 109, 97, 116, 34, 58>>   \* {"format":

NoMeta == [type |-> "none", items |-> <<>>]

\* json.loads on the texts of this model: the value of each JSON text above,
\* JSONDecodeError (ok FALSE) on the empty text and on the broken text.
JsonLoads(text) ==
  CASE text = TextEmptyObject ->
         [ok |-> TRUE, val |-> [type |-> "dict", items |-> <<>>]]
    [] text = TextFlac ->
         [ok |-> TRUE, val |-> [type |-> "dict", items |-> [format |-> "flac"]]]
    [] text = TextMp3Pic ->
         [ok |-> TRUE, val |-> [type |-> "dict",
            items |-> [format |-> "mp3", albumPic |-> "http://p/c.jpg"]]]
    [] text = TextFlacPic ->
         [ok |-> TRUE, val |-> [type |-> "dict",
            items |-> [format |-> "FLAC", albumPic |-> "http://p/c.jpg"]]]
    [] text = TextList ->
         [ok |-> TRUE, val |-> [type |-> "list", items |-> <<>>]]
    [] OTHER -> [ok |-> FALSE, val |-> NoMeta]

\* dict.get(key, default)
DictGet(d, key, default) ==
  IF key \in DOMAIN d.items THEN d.items[key] ELSE default

\* str.lower() on the extensions, suffixes and format hints of this model
Lower(s) ==
  CASE s = "FLAC" -> "flac"
    [] s = "MP3" -> "mp3"
    [] s = ".NCM" -> ".ncm"
    [] OTHER -> s

\* Lines 142-144: the extension of the path the audio is written to.  The
\* path keeps its directory and stem, so its extension names it.
FinalPath(fp, format) ==
  LET ext == Lower(format)
  IN  IF Lower(fp) = ext THEN fp ELSE ext

\* A faulty variant, under which C8 fails: the finally clause leaves the file where it is.
CleanupCoverSkipped(cv) == cv

\* Lines 173-178: the temporary cover file after the finally clause.
CleanupCover(cv) == "absent"

\* backoff ** attempt
RECURSIVE Pow(_, _)
Pow(b, e) == IF e = 0 THEN 1 ELSE b * Pow(b, e - 1)

----------------------------------------------------------------------------
(* The inputs of Spec: containers, output paths and output directories.    *)
(* A key block or metadata block is given by what the AES step yields from *)
(* it: aligned says whether its length is a multiple of 16, plain is the   *)
(* decrypted value, padding included.                                      *)

MaxPayload == 2

\* 'neteasecloudmusic', the 17 bytes line 112 drops
KeyPrefix ==
  <<110, 101, 116, 101, 97, 115, 101, 99, 108, 111, 117, 100, 109, 117, 115, 105, 99>>
\* 'music:', the 6 characters line 133 drops
MusicPrefix == <<109, 117, 115, 105, 99, 58>>
\* "TESTKEY!"
TestKey == <<84, 69, 83, 84, 75, 69, 89, 33>>

\* The encoder's padding: k bytes of value k, to a multiple of 16.
Pkcs7(s) ==
  LET k == 16 - (Len(s) % 16)
  IN  s \o [x \in 1..k |-> k]

SetLast(s, b) == [s EXCEPT ![Len(s)] = b]

Headers == {Magic, <<67, 84, 69, 78, 70, 68, 65, 88>>, <<67, 84, 69, 78>>}

KeyBlocks ==
  { [aligned |-> TRUE, plain |-> Pkcs7(KeyPrefix \o TestKey)],
    [aligned |-> TRUE, plain |-> Pkcs7(KeyPrefix \o <<1>>)],
    [aligned |-> TRUE, plain |-> Pkcs7(KeyPrefix)],
    [aligned |-> TRUE, plain |-> SetLast(Pkcs7(KeyPrefix \o TestKey), 0)],
    [aligned |-> TRUE, plain |-> SetLast(Pkcs7(KeyPrefix \o TestKey), 200)],
    [aligned |-> FALSE, plain |-> <<>>] }

MetaOf(text) == [b64ok |-> TRUE, aligned |-> TRUE, plain |-> Pkcs7(MusicPrefix \o text)]

MetaBlocks ==
  { MetaOf(TextEmptyObject), MetaOf(TextFlac), MetaOf(TextMp3Pic),
    MetaOf(TextFlacPic), MetaOf(TextList), MetaOf(TextBroken),
    MetaOf(<<255>> \o TextEmptyObject),
    [b64ok |-> TRUE, aligned |-> TRUE,
     plain |-> SetLast(Pkcs7(MusicPrefix \o TextMp3Pic), 0)],
    [b64ok |-> TRUE, aligned |-> TRUE,
     plain |-> SetLast(Pkcs7(MusicPrefix \o TextMp3Pic), 200)],
    [b64ok |-> TRUE, aligned |-> FALSE, plain |-> <<>>],
    [b64ok |-> FALSE, aligned |-> TRUE, plain |-> <<>>] }

Payloads == { [k \in 1..len |-> (85 + 85 * k) % 256] : len \in 0..MaxPayload }

\* cut names the section the file ends before ("none": the file is whole).
\* A header shorter than 8 bytes is all there is of its file.
Containers ==
  { x \in [header : Headers, cut : {"none", "key", "meta", "thumb"}, key : KeyBlocks,
           meta : MetaBlocks, payload : Payloads] :
      /\ Len(x.header) < 8 <=> x.cut = "key" }

NoInput == [header |-> <<>>, cut |-> "none",
            key |-> [aligned |-> FALSE, plain |-> <<>>],
            meta |-> [b64ok |-> FALSE, aligned |-> FALSE, plain |-> <<>>],
            payload |-> <<>>]

AudioPaths == {"mp3", "flac"}
NoFile == [exists |-> FALSE, data |-> <<>>, tag |-> FALSE]
OldFile == [exists |-> TRUE, data |-> <<7, 7, 7, 7>>, tag |-> FALSE]
\* open(output_fp, "wb"): the file is created, or truncated
EmptyFile == [exists |-> TRUE, data |-> <<>>, tag |-> FALSE]

\* download_pic's defaults (line 33)
DefaultRetries == 3
DefaultBackoff == 2

\* No batch: the variables of main, at rest.
NoBatch ==
  /\ dir = {} /\ formats = <<>> /\ poolSize = 0 /\ bpc = "idle"
  /\ task = <<>> /\ ofile = <<>> /\ writers = <<>> /\ cwriters = <<>>
  /\ reaped = {} /\ okCount = 0

IdleDownload ==
  /\ dl_pc = "idle" /\ retries = 0 /\ backoff = 0 /\ attempt = 0
  /\ slept = <<>> /\ dl_log = <<>> /\ mime = "" /\ coverRaised = FALSE

Init ==
  /\ debug \in BOOLEAN
  /\ input \in Containers
  /\ arg_fp \in AudioPaths
  /\ fs0 \in {[p \in AudioPaths |-> NoFile], [p \in AudioPaths |-> OldFile]}
  /\ fs = fs0
  /\ cover = "absent" /\ part = "absent"
  /\ pc = "ReadHeader" /\ err = "" /\ failedAt = "" /\ result = ""
  /\ key_data = <<>> /\ key_box = IdentityBox
  /\ ki = 0 /\ c = 0 /\ last = 0 /\ off = 0
  /\ meta = NoMeta /\ output_fp = arg_fp
  /\ unpadArg = <<>> /\ unpadRes = [ok |-> FALSE, val |-> <<>>]
  /\ payloadLen = Len(input.payload)
  /\ pos = 0 /\ n = 0 /\ i = 0 /\ decoded = 0 /\ outByte = 0 /\ refByte = 0
  /\ IdleDownload
  /\ NoBatch

----------------------------------------------------------------------------
(* dump_ncm, section by section. *)

Fail(kind) ==
  /\ pc' = "failed"
  /\ err' = kind
  /\ failedAt' = pc
  /\ UNCHANGED result

Goto(p) ==
  /\ pc' = p
  /\ UNCHANGED <<err, failedAt, result>>

\* Lines 100-104.  The assert is the only check of the header, and Python
\* drops assert statements under -O.
ReadHeader ==
  /\ pc = "ReadHeader"
  /\ IF debug /\ input.header # Magic
       THEN Fail("AssertionError")
       ELSE Goto("ReadKeyBlock")
  /\ UNCHANGED <<batchVars, inVars, fileVars, keyVars, metaVars, unpadVars, loopVars, dlVars>>

\* Lines 107-124.  struct.unpack raises struct.error on fewer than 4 bytes,
\* AES decrypt raises ValueError on a length that is not a multiple of 16.
ReadKeyBlock ==
  /\ pc = "ReadKeyBlock"
  /\ IF input.cut = "key"
       THEN Fail("struct.error") /\ UNCHANGED <<keyVars, unpadVars>>
     ELSE IF ~input.key.aligned
       THEN Fail("ValueError") /\ UNCHANGED <<keyVars, unpadVars>>
     ELSE
       LET u  == unpad(input.key.plain)
           kd == DropFirst(u.val, 17)
       IN  /\ unpadArg' = input.key.plain
           /\ unpadRes' = u
           /\ IF ~u.ok
                THEN Fail("IndexError") /\ UNCHANGED keyVars
              ELSE IF Len(kd) = 0
                THEN /\ Fail("IndexError")
                     /\ key_data' = kd
                     /\ UNCHANGED <<key_box, ki, c, last, off>>
              ELSE LET st == KsaRun(kd)
                   IN  /\ key_data' = kd
                       /\ key_box' = st.box
                       /\ ki' = 256
                       /\ c' = st.c /\ last' = st.last /\ off' = st.off
                       /\ Goto("ReadMetaBlock")
  /\ UNCHANGED <<batchVars, inVars, fileVars, metaVars, loopVars, dlVars>>

\* Lines 127-133: base64, AES, unpad, UTF-8, the 6 characters, JSON.
ReadMetaBlock ==
  /\ pc = "ReadMetaBlock"
  /\ IF input.cut = "meta"
       THEN Fail("struct.error") /\ UNCHANGED <<meta, unpadVars>>
     ELSE IF ~input.meta.b64ok
       THEN Fail("binascii.Error") /\ UNCHANGED <<meta, unpadVars>>
     ELSE IF ~input.meta.aligned
       THEN Fail("ValueError") /\ UNCHANGED <<meta, unpadVars>>
     ELSE
       LET u    == unpad(input.meta.plain)
           text == Utf8Decode(u.val)
           doc  == JsonLoads(DropFirst(text.val, 6))
       IN  /\ unpadArg' = input.meta.plain
           /\ unpadRes' = u
           /\ IF ~u.ok
                THEN Fail("IndexError") /\ UNCHANGED meta
              ELSE IF ~text.ok
                THEN Fail("UnicodeDecodeError") /\ UNCHANGED meta
              ELSE IF ~doc.ok
                THEN Fail("JSONDecodeError") /\ UNCHANGED meta
              ELSE meta' = doc.val /\ Goto("SkipThumbnail")
  /\ UNCHANGED <<batchVars, inVars, fileVars, keyVars, output_fp, loopVars, dlVars>>

\* Lines 136-139.
SkipThumbnail ==
  /\ pc = "SkipThumbnail"
  /\ IF input.cut = "thumb"
       THEN Fail("struct.error")
       ELSE Goto("OpenOutput")
  /\ UNCHANGED <<batchVars, inVars, fileVars, keyVars, metaVars, unpadVars, loopVars, dlVars>>

\* Lines 142-147: the final path, then open(output_fp, "wb"), which may fail.
\* meta.get on a JSON value that is no object raises AttributeError.
OpenOutput ==
  /\ pc = "OpenOutput"
  /\ IF meta.type # "dict"
       THEN Fail("AttributeError") /\ UNCHANGED <<output_fp, fs>>
     ELSE
       LET fp == FinalPath(arg_fp, DictGet(meta, "format", "mp3"))
       IN  /\ output_fp' = fp
           /\ \E opened \in BOOLEAN :
                IF opened
                  THEN fs' = [fs EXCEPT ![fp] = EmptyFile] /\ Goto("StreamAudio")
                  ELSE Fail("OSError") /\ UNCHANGED fs
  /\ UNCHANGED <<batchVars, inVars, cover, part, keyVars, meta, unpadVars, loopVars, dlVars>>

\* Lines 148-157, one pass of the while loop: read a chunk, decode it, write
\* it.  The read and the write may fail; an empty chunk ends the loop and
\* closes both files.
StreamChunk ==
  /\ pc = "StreamAudio"
  /\ \E io \in {"ok", "read_error", "write_error"} :
       LET got   == Min(ChunkSize, payloadLen - pos)
           chunk == SubSeq(input.payload, pos + 1, pos + got)
           dec   == DecodeChunk(key_box, chunk)
       IN  IF io = "read_error"
             THEN Fail("OSError") /\ UNCHANGED <<fs, loopVars>>
           ELSE IF got = 0
             THEN io = "ok" /\ Goto("Cover") /\ UNCHANGED <<fs, loopVars>>
           ELSE
             /\ pos' = pos + got
             /\ n' = got
             /\ i' = got + 1
             /\ decoded' = decoded + got
             /\ outByte' = dec[got]
             /\ refByte' = Xor(chunk[got], KeystreamByte(key_box, decoded + got))
             /\ UNCHANGED payloadLen
             /\ IF io = "write_error"
                  THEN Fail("OSError") /\ UNCHANGED fs
                  ELSE /\ fs' = [fs EXCEPT ![output_fp].data = @ \o dec]
                       /\ Goto("StreamAudio")
  /\ UNCHANGED <<batchVars, inVars, cover, part, keyVars, metaVars, unpadVars, dlVars>>

----------------------------------------------------------------------------
(* The cover handling of dump_ncm, and download_pic. *)

\* (meta.get("albumPic") or "").strip(), on the URLs of this model
CoverUrl(m) == DictGet(m, "albumPic", "")

\* Lines 160-167 and 179-182: without a cover URL dump_ncm warns and
\* returns; with one it calls download_pic(cover_url, tmp_file).
CoverStart ==
  /\ pc = "Cover"
  /\ IF CoverUrl(meta) = ""
       THEN /\ pc' = "returned"
            /\ result' = output_fp
            /\ UNCHANGED <<err, failedAt, dlVars>>
       ELSE /\ Goto("Download")
            /\ dl_pc' = "attempt"
            /\ retries' = DefaultRetries
            /\ backoff' = DefaultBackoff
            /\ attempt' = 1
            /\ UNCHANGED <<slept, dl_log, mime, coverRaised>>
  /\ UNCHANGED <<batchVars, inVars, fileVars, keyVars, metaVars, unpadVars, loopVars>>

\* How one pass of the try block of download_pic (lines 41-50) ends:
\*   "request"  SESSION.get or raise_for_status raises
\*   "open"     open(tmp, "wb") raises
\*   "body"     iter_content or f.write raises with part of the body written
\*   "replace"  os.replace raises with the whole body in the .part file
\*   "ok"       the .part file is renamed to save_fn and mime is returned
Outcomes == {"request", "open", "body", "replace", "ok"}

\* Content-Type values of the response, as line 43 normalises them
Mimes == {"image/jpeg", "image/webp", ""}

\* The .part file after a failed pass.
PartAfter(outcome, before) ==
  CASE outcome = "body" -> "partial"
    [] outcome = "replace" -> "full"
    [] OTHER -> before

\* A faulty variant, under which C10 fails: the test of line 53 off by one, "attempt <= retries".
ShouldRetryOffByOne(a, r) == a <= r

\* Line 53: a failed attempt is followed by a sleep and another attempt.
ShouldRetry(a, r) == a < r

\* Lines 39-56, one pass of the for loop.
DownloadAttempt ==
  /\ dl_pc = "attempt"
  /\ attempt <= retries
  /\ \E outcome \in Outcomes :
       /\ dl_log' = Append(dl_log, outcome)
       /\ IF outcome = "ok"
            THEN /\ part' = "absent"
                 /\ cover' = "full"
                 /\ \E m \in Mimes : mime' = m
                 /\ dl_pc' = "returned"
                 /\ UNCHANGED <<attempt, slept>>
            ELSE /\ part' = PartAfter(outcome, part)
                 /\ UNCHANGED <<cover, mime>>
                 /\ IF ShouldRetry(attempt, retries)
                      THEN /\ slept' = Append(slept, Pow(backoff, attempt))
                           /\ attempt' = attempt + 1
                           /\ UNCHANGED dl_pc
                      ELSE /\ dl_pc' = "raised"
                           /\ UNCHANGED <<attempt, slept>>
  /\ UNCHANGED <<batchVars, inVars, fs, ctlVars, keyVars, metaVars, unpadVars, loopVars,
                 retries, backoff, coverRaised>>

\* What add_cover_2_mp3(output_fp, tmp_file, mime) may do (lines 64-84):
\*   "skip"   return without writing: not an MP3, an unsupported MIME type,
\*            or eyed3.load returned None
\*   "raise"  eyed3.load, open(pic_fp) or tag.save raises
\*   "saved"  the tag is written
AddCoverOutcomes(fp, m) ==
  IF Lower(fp) # "mp3" THEN {"skip"}
  ELSE IF m \notin {"image/jpeg", "image/jpg", "image/png"} THEN {"skip"}
  ELSE {"skip", "raise", "saved"}

\* Lines 169-170 after download_pic returned.
AddCover ==
  /\ pc = "Download"
  /\ dl_pc = "returned"
  /\ \E o \in AddCoverOutcomes(output_fp, mime) :
       /\ coverRaised' = (o = "raise")
       /\ fs' = IF o = "saved" THEN [fs EXCEPT ![output_fp].tag = TRUE] ELSE fs
  /\ Goto("Cleanup")
  /\ UNCHANGED <<batchVars, inVars, cover, part, keyVars, metaVars, unpadVars, loopVars,
                 dl_pc, retries, backoff, attempt, slept, dl_log, mime>>

\* Lines 171-172 after download_pic raised: a warning.
DownloadFailed ==
  /\ pc = "Download"
  /\ dl_pc = "raised"
  /\ Goto("Cleanup")
  /\ UNCHANGED <<batchVars, inVars, fileVars, keyVars, metaVars, unpadVars, loopVars, dlVars>>

\* Lines 173-182: the finally clause, then return output_fp.
Cleanup ==
  /\ pc = "Cleanup"
  /\ cover' = CleanupCover(cover)
  /\ pc' = "returned"
  /\ result' = output_fp
  /\ UNCHANGED <<batchVars, inVars, fs, part, err, failedAt, keyVars, metaVars, unpadVars,
                 loopVars, dlVars>>

Next ==
  \/ ReadHeader
  \/ ReadKeyBlock
  \/ ReadMetaBlock
  \/ SkipThumbnail
  \/ OpenOutput
  \/ StreamChunk
  \/ CoverStart
  \/ DownloadAttempt
  \/ AddCover
  \/ DownloadFailed
  \/ Cleanup

Spec == Init /\ [][Next]_vars

----------------------------------------------------------------------------
(* SpecKeystream: the key schedule of dump_ncm swap by swap, then its      *)
(* audio loop byte by byte, for seed keys and payload lengths drawn from   *)
(* bounded sets.  The ciphertext bytes are chosen as they are read.        *)

MaxSeedLen == 2
MaxChunks == 2
SeedBytes == {0, 84, 255}
CipherBytes == {0, 165}

RECURSIVE SeqsUpTo(_, _)
SeqsUpTo(S, k) ==
  IF k = 0 THEN {<<>>}
  ELSE LET shorter == SeqsUpTo(S, k - 1)
       IN  shorter \cup {Append(s, x) : s \in {t \in shorter : Len(t) = k - 1}, x \in S}

ShortSeeds == SeqsUpTo(SeedBytes, MaxSeedLen)
ShortLens == {0, 3, 300}
LongLens == {ChunkSize, MaxChunks * ChunkSize + 3}

KeystreamInputs ==
  (ShortSeeds \X ShortLens) \cup ({TestKey} \X LongLens)

NoCall ==
  /\ debug = TRUE /\ input = NoInput /\ arg_fp = "mp3"
  /\ fs0 = [p \in AudioPaths |-> NoFile] /\ fs = fs0
  /\ cover = "absent" /\ part = "absent"
  /\ err = "" /\ failedAt = "" /\ result = ""
  /\ meta = NoMeta /\ output_fp = arg_fp
  /\ unpadArg = <<>> /\ unpadRes = [ok |-> FALSE, val |-> <<>>]

InitKeystream ==
  /\ \E in \in KeystreamInputs :
       /\ key_data = in[1]
       /\ payloadLen = in[2]
  /\ pc = "ksa"
  /\ key_box = IdentityBox
  /\ ki = 0 /\ c = 0 /\ last = 0 /\ off = 0
  /\ pos = 0 /\ n = 0 /\ i = 0 /\ decoded = 0 /\ outByte = 0 /\ refByte = 0
  /\ NoCall
  /\ IdleDownload
  /\ NoBatch

\* Lines 119-124, one pass of the for loop.
KsaSwap ==
  /\ pc = "ksa"
  /\ ki < 256
  /\ Len(key_data) > 0
  /\ LET st == KsaStep([box |-> key_box, c |-> c, last |-> last, off |-> off],
                       key_data, ki)
     IN  /\ key_box' = st.box
         /\ c' = st.c
         /\ last' = st.last
         /\ off' = st.off
  /\ ki' = ki + 1
  /\ UNCHANGED <<batchVars, inVars, fileVars, ctlVars, key_data, metaVars, unpadVars,
                 loopVars, dlVars>>

\* Line 121 with an empty key_data: IndexError.
KsaIndexError ==
  /\ pc = "ksa"
  /\ ki < 256
  /\ Len(key_data) = 0
  /\ Fail("IndexError")
  /\ UNCHANGED <<batchVars, inVars, fileVars, keyVars, metaVars, unpadVars, loopVars, dlVars>>

\* The for loop of line 119 is over; the sections between the key schedule
\* and the audio loop do not touch the table.
KsaDone ==
  /\ pc = "ksa"
  /\ ki = 256
  /\ Goto("read")
  /\ UNCHANGED <<batchVars, inVars, fileVars, keyVars, metaVars, unpadVars, loopVars, dlVars>>

\* Lines 149-152: chunk = f.read(0x8000); an empty chunk ends the loop.
ReadChunk ==
  /\ pc = "read"
  /\ LET got == Min(ChunkSize, payloadLen - pos)
     IN  IF got = 0
           THEN /\ Goto("done")
                /\ UNCHANGED <<n, i>>
           ELSE /\ Goto("decode")
                /\ n' = got
                /\ i' = 1
  /\ UNCHANGED <<batchVars, inVars, fileVars, keyVars, metaVars, unpadVars, dlVars,
                 payloadLen, pos, decoded, outByte, refByte>>

\* Lines 153-156, one pass of the for loop: the byte at index i - 1 of the
\* chunk.  refByte is the same byte under the keystream of one counter that
\* runs 1..len(payload) over the whole payload.
DecodeByte ==
  /\ pc = "decode"
  /\ i <= n
  /\ \E b \in CipherBytes :
       /\ outByte' = Xor(b, KeystreamByte(key_box, i))
       /\ refByte' = Xor(b, KeystreamByte(key_box, decoded + 1))
  /\ i' = i + 1
  /\ decoded' = decoded + 1
  /\ UNCHANGED <<batchVars, inVars, fileVars, ctlVars, keyVars, metaVars, unpadVars, dlVars,
                 payloadLen, pos, n>>

\* Line 157: m.write(chunk); the cursor of f is past the chunk.
WriteChunk ==
  /\ pc = "decode"
  /\ i = n + 1
  /\ pos' = pos + n
  /\ Goto("read")
  /\ UNCHANGED <<batchVars, inVars, fileVars, keyVars, metaVars, unpadVars, dlVars,
                 payloadLen, n, i, decoded, outByte, refByte>>

NextKeystream ==
  \/ KsaSwap
  \/ KsaIndexError
  \/ KsaDone
  \/ ReadChunk
  \/ DecodeByte
  \/ WriteChunk

SpecKeystream == InitKeystream /\ [][NextKeystream]_vars

----------------------------------------------------------------------------
(* SpecDownload: download_pic on its own, for retries >= 1. *)

MaxRetries == 3
Backoffs == {2, 3}

InitDownload ==
  /\ retries \in 1..MaxRetries
  /\ backoff \in Backoffs
  /\ dl_pc = "attempt" /\ attempt = 1
  /\ slept = <<>> /\ dl_log = <<>> /\ mime = "" /\ coverRaised = FALSE
  /\ pc = "idle"
  /\ key_data = <<>> /\ key_box = IdentityBox
  /\ ki = 0 /\ c = 0 /\ last = 0 /\ off = 0
  /\ payloadLen = 0
  /\ pos = 0 /\ n = 0 /\ i = 0 /\ decoded = 0 /\ outByte = 0 /\ refByte = 0
  /\ NoCall
  /\ NoBatch

NextDownload == DownloadAttempt

\* The loop of download_pic has no blocking step without a timeout: an
\* attempt that can be made is made.
SpecDownload == InitDownload /\ [][NextDownload]_vars /\ WF_vars(NextDownload)

----------------------------------------------------------------------------
(* SpecBatch: main on one directory.  The walk collects the files to       *)
(* convert; the pool runs _convert_one on each, at most poolSize at a      *)
(* time; each conversion is dump_ncm reduced to the files it opens.        *)

MaxWorkers == 2

\* os.path.splitext(fname): the stem and the suffix of a file name
FileNames ==
  { [stem |-> "a", suffix |-> ".ncm"], [stem |-> "a", suffix |-> ".NCM"],
    [stem |-> "b", suffix |-> ".ncm"], [stem |-> "n", suffix |-> ".txt"] }

OutPaths == {"a", "b", "n"} \X {"mp3", "flac"}

Absent == [exists |-> FALSE, by |-> "", state |-> ""]
\* The output of an earlier run.
Earlier == [exists |-> TRUE, by |-> "", state |-> "complete"]

\* Line 197, then lines 142-144 of dump_ncm: the path a conversion writes.
OutPathOf(f) == <<f.stem, FinalPath("mp3", formats[f])>>

\* Lines 250-268: the files the walk collects, given the output directory.
Collected(names, out) ==
  { f \in names :
      /\ Lower(f.suffix) = ".ncm"
      /\ ~out[<<f.stem, "mp3">>].exists
      /\ ~out[<<f.stem, "flac">>].exists }

Running == { f \in DOMAIN task : task[f] \in {"running", "writing", "cover", "covering"} }

InitBatch ==
  /\ dir \in (SUBSET FileNames) \ {{}}
  /\ formats \in [dir -> {"mp3", "flac"}]
  /\ poolSize \in 1..MaxWorkers
  /\ ofile \in { [p \in OutPaths |-> Absent],
                 [p \in OutPaths |-> IF p = <<"b", "flac">> THEN Earlier ELSE Absent] }
  /\ bpc = "walk"
  /\ task = <<>>
  /\ writers = [p \in OutPaths |-> {}]
  /\ cwriters = [p \in OutPaths |-> {}]
  /\ reaped = {}
  /\ okCount = 0
  /\ debug = TRUE /\ input = NoInput /\ arg_fp = "mp3"
  /\ fs0 = [p \in AudioPaths |-> NoFile] /\ fs = fs0
  /\ cover = "absent" /\ part = "absent"
  /\ pc = "idle" /\ err = "" /\ failedAt = "" /\ result = ""
  /\ meta = NoMeta /\ output_fp = arg_fp
  /\ unpadArg = <<>> /\ unpadRes = [ok |-> FALSE, val |-> <<>>]
  /\ key_data = <<>> /\ key_box = IdentityBox
  /\ ki = 0 /\ c = 0 /\ last = 0 /\ off = 0
  /\ payloadLen = 0
  /\ pos = 0 /\ n = 0 /\ i = 0 /\ decoded = 0 /\ outByte = 0 /\ refByte = 0
  /\ IdleDownload

\* Lines 249-282: the walk, then one future per collected file.
Collect ==
  /\ bpc = "walk"
  /\ LET files == Collected(dir, ofile)
     IN  /\ task' = [f \in files |-> "queued"]
         /\ bpc' = IF files = {} THEN "done" ELSE "pool"
  /\ UNCHANGED <<callVars, dir, formats, poolSize, ofile, writers, cwriters,
                 reaped, okCount>>

\* A free worker of the pool takes a queued call of _convert_one (lines
\* 193-205).
StartTask(f) ==
  /\ bpc = "pool"
  /\ task[f] = "queued"
  /\ Cardinality(Running) < poolSize
  /\ task' = [task EXCEPT ![f] = "running"]
  /\ UNCHANGED <<callVars, dir, formats, poolSize, bpc, ofile, writers, cwriters,
                 reaped, okCount>>

\* dump_ncm raises before it opens the output (lines 100-144); _convert_one
\* returns False (lines 210-212).
WorkerFailEarly(f) ==
  /\ task[f] = "running"
  /\ task' = [task EXCEPT ![f] = "failed"]
  /\ UNCHANGED <<callVars, dir, formats, poolSize, bpc, ofile, writers, cwriters,
                 reaped, okCount>>

\* Line 147: open(output_fp, "wb") creates or truncates the file.
WorkerOpen(f) ==
  /\ task[f] = "running"
  /\ LET p == OutPathOf(f)
     IN  /\ ofile' = [ofile EXCEPT ![p] = [exists |-> TRUE, by |-> f, state |-> "partial"]]
         /\ writers' = [writers EXCEPT ![p] = @ \cup {f}]
  /\ task' = [task EXCEPT ![f] = "writing"]
  /\ UNCHANGED <<callVars, dir, formats, poolSize, bpc, cwriters, reaped, okCount>>

\* Lines 148-157 raise: the file is closed as it is; _convert_one returns
\* False.
WorkerWriteFail(f) ==
  /\ task[f] = "writing"
  /\ writers' = [writers EXCEPT ![OutPathOf(f)] = @ \ {f}]
  /\ task' = [task EXCEPT ![f] = "failed"]
  /\ UNCHANGED <<callVars, dir, formats, poolSize, bpc, ofile, cwriters, reaped,
                 okCount>>

\* Lines 148-157 run to the end and the file is closed.  The file holds the
\* audio of f when no other conversion opened or wrote it meanwhile.
WorkerWrite(f) ==
  /\ task[f] = "writing"
  /\ LET p == OutPathOf(f)
     IN  /\ ofile' = [ofile EXCEPT ![p].state =
                        IF writers[p] = {f} /\ ofile[p].by = f /\ @ = "partial"
                          THEN "complete" ELSE "mixed"]
         /\ writers' = [writers EXCEPT ![p] = @ \ {f}]
  /\ task' = [task EXCEPT ![f] = "cover"]
  /\ UNCHANGED <<callVars, dir, formats, poolSize, bpc, cwriters, reaped, okCount>>

\* Lines 179-182: no cover URL; _convert_one returns True.
WorkerNoCover(f) ==
  /\ task[f] = "cover"
  /\ task' = [task EXCEPT ![f] = "done"]
  /\ UNCHANGED <<callVars, dir, formats, poolSize, bpc, ofile, writers, cwriters,
                 reaped, okCount>>

\* Lines 163-169: download_pic opens its .part file under the cover path
\* .cover_<basename of output_fp>.
WorkerCoverBegin(f) ==
  /\ task[f] = "cover"
  /\ cwriters' = [cwriters EXCEPT ![OutPathOf(f)] = @ \cup {f}]
  /\ task' = [task EXCEPT ![f] = "covering"]
  /\ UNCHANGED <<callVars, dir, formats, poolSize, bpc, ofile, writers, reaped,
                 okCount>>

\* Lines 169-182: the cover handling ends, in success or in a warning;
\* _convert_one returns True.
WorkerCoverEnd(f) ==
  /\ task[f] = "covering"
  /\ cwriters' = [cwriters EXCEPT ![OutPathOf(f)] = @ \ {f}]
  /\ task' = [task EXCEPT ![f] = "done"]
  /\ UNCHANGED <<callVars, dir, formats, poolSize, bpc, ofile, writers, reaped,
                 okCount>>

\* Lines 284-290: main takes the result of a completed future.
Reap(f) ==
  /\ bpc = "pool"
  /\ task[f] \in {"done", "failed"}
  /\ f \notin reaped
  /\ reaped' = reaped \cup {f}
  /\ okCount' = IF task[f] = "done" THEN okCount + 1 ELSE okCount
  /\ UNCHANGED <<callVars, dir, formats, poolSize, bpc, task, ofile, writers, cwriters>>

\* Line 292: every future is reaped.
Finish ==
  /\ bpc = "pool"
  /\ reaped = DOMAIN task
  /\ bpc' = "done"
  /\ UNCHANGED <<callVars, dir, formats, poolSize, task, ofile, writers, cwriters,
                 reaped, okCount>>

NextBatch ==
  \/ Collect
  \/ Finish
  \/ \E f \in DOMAIN task : StartTask(f)
  \/ \E f \in DOMAIN task : WorkerFailEarly(f)
  \/ \E f \in DOMAIN task : WorkerOpen(f)
  \/ \E f \in DOMAIN task : WorkerWriteFail(f)
  \/ \E f \in DOMAIN task : WorkerWrite(f)
  \/ \E f \in DOMAIN task : WorkerNoCover(f)
  \/ \E f \in DOMAIN task : WorkerCoverBegin(f)
  \/ \E f \in DOMAIN task : WorkerCoverEnd(f)
  \/ \E f \in DOMAIN task : Reap(f)

SpecBatch == InitBatch /\ [][NextBatch]_vars

----------------------------------------------------------------------------
(* The claims. *)

\* What the claims say of a container.
KeyRecovers(k) ==
  /\ k.aligned
  /\ unpad(k.plain).ok
  /\ Len(DropFirst(unpad(k.plain).val, 17)) >= 1

MetaParse(m) == JsonLoads(DropFirst(Utf8Decode(unpad(m.plain).val).val, 6))

MetaRecoveryFails(m) ==
  \/ ~m.b64ok
  \/ ~m.aligned
  \/ ~unpad(m.plain).ok
  \/ ~Utf8Decode(unpad(m.plain).val).ok
  \/ ~MetaParse(m).ok

ValidContainer ==
  /\ input.header = Magic
  /\ input.cut = "none"
  /\ KeyRecovers(input.key)
  /\ ~MetaRecoveryFails(input.meta)
  /\ MetaParse(input.meta).val.type = "dict"

\* The payload decoded with one position counter running 1..len(payload).
ContiguousDecode(box, payload) ==
  [k \in 1..Len(payload) |-> Xor(payload[k], KeystreamByte(box, k))]

IsPermutation(box) ==
  /\ DOMAIN box = Byte
  /\ {box[x] : x \in Byte} = Byte

\* C1: when dump_ncm has failed, whatever the section it failed in, the run
\* has left no file of its own at an output path: every output path holds
\* what it held before the call (nothing, when nothing was there).
C1_NoFileLeftOnFailure ==
  pc = "failed" => fs = fs0

\* C2: for an input whose first 8 bytes are not 'CTENFDAM' (shorter inputs
\* included) dump_ncm ends in a failure of kind InvalidContainerError raised
\* at the header, and at no time creates or truncates an output file.
C2_BadMagicRejected ==
  input.header # Magic =>
    /\ fs = fs0
    /\ pc \in {"failed", "returned"} =>
         /\ pc = "failed"
         /\ failedAt = "ReadHeader"
         /\ err = "InvalidContainerError"

\* C3: with a valid header and key block and a whole file, a metadata block
\* that fails at a recovery stage does not make dump_ncm fail (only a read
\* or write error of the audio may): it returns a path of extension mp3 and
\* download_pic was never called.
C3_MetadataFallback ==
  ( /\ input.header = Magic
    /\ input.cut = "none"
    /\ KeyRecovers(input.key)
    /\ MetaRecoveryFails(input.meta) ) =>
    /\ pc = "failed" => err = "OSError"
    /\ pc = "returned" => (result = "mp3" /\ dl_pc = "idle")

\* C4: unpad, on a non-empty buffer whose last byte is k: for 1 <= k <= len
\* the result is the first len - k bytes; for k = 0 or k > len the call
\* fails and returns no buffer.
C4_UnpadChecksPadLength ==
  unpadArg # <<>> =>
    LET k == unpadArg[Len(unpadArg)]
    IN  IF 1 <= k /\ k <= Len(unpadArg)
          THEN unpadRes = [ok |-> TRUE, val |-> SubSeq(unpadArg, 1, Len(unpadArg) - k)]
          ELSE ~unpadRes.ok

C6_ChunkBoundaryEquivalence ==
  pc \in {"read", "decode", "done"} => outByte = refByte

\* C6 witness: the first byte of the second chunk has been decoded, with
\* the chunk's counter at 1 and ChunkSize bytes decoded before it.
C6_Witness ==
  /\ pc = "decode"
  /\ pos = ChunkSize
  /\ i = 2
  /\ decoded = ChunkSize + 1

StreamKeepsTable ==
  pc \in {"read", "decode", "done"} => key_box' = key_box

\* C7: key_box is a permutation of 0..255 after every swap of the key
\* schedule and in every later state, and no step of the audio loop
\* changes it.
C7_TablePermutation ==
  /\ [](IsPermutation(key_box))
  /\ [][StreamKeepsTable]_vars

\* C7 witness: the 256 swaps have run on a non-empty seed key and the audio
\* loop has decoded a payload to its end.
C7_Witness ==
  /\ pc = "done"
  /\ Len(key_data) >= 1
  /\ ki = 256
  /\ decoded = payloadLen
  /\ payloadLen > 0
  /\ key_box # IdentityBox

AllFailed(log) == \A k \in 1..Len(log) : log[k] # "ok"

C10_Safety ==
  /\ attempt <= retries
  /\ Len(dl_log) <= retries
  /\ \A k \in 1..Len(slept) : slept[k] = backoff ^ k
  /\ dl_pc = "attempt" =>
       /\ Len(dl_log) = attempt - 1
       /\ Len(slept) = attempt - 1
       /\ AllFailed(dl_log)
  /\ dl_pc = "returned" =>
       /\ Len(dl_log) = attempt
       /\ dl_log[attempt] = "ok"
       /\ AllFailed(SubSeq(dl_log, 1, attempt - 1))
       /\ Len(slept) = attempt - 1
       /\ ~ENABLED DownloadAttempt
  /\ dl_pc = "raised" =>
       /\ Len(dl_log) = retries
       /\ AllFailed(dl_log)
       /\ Len(slept) = retries - 1
       /\ ~ENABLED DownloadAttempt
  /\ cover # "absent" => (dl_pc = "returned" /\ cover = "full")

\* C10: download_pic with retries >= 1 ends, after at most retries attempts:
\* it returns at the first attempt that succeeds and makes no further one;
\* the failed attempt k < retries is followed by a sleep of backoff ** k; the
\* failed attempt number retries is followed by the raise, without a sleep.
\* A file is at save_fn only once an attempt has renamed the whole body to it.
C10_DownloadTerminates ==
  /\ []C10_Safety
  /\ <>(dl_pc \in {"returned", "raised"})

\* C10 witness: two attempts failed, each followed by its sleep, and the
\* third one succeeded.
C10_Witness ==
  /\ dl_pc = "returned"
  /\ attempt = 3
  /\ backoff = 2
  /\ slept = <<2, 4>>
  /\ cover = "full"

\* C9: in a batch run no two conversions hold the same audio path, or the
\* same cover path, open for writing at the same time, and a conversion that
\* has written its audio to the end has its own whole audio at its path,
\* whatever its siblings did or failed to do.
C9_WorkersOwnOutputs ==
  /\ \A p \in OutPaths : Cardinality(writers[p]) <= 1 /\ Cardinality(cwriters[p]) <= 1
  /\ \A f \in DOMAIN task :
       task[f] \in {"cover", "covering", "done"} =>
         ofile[OutPathOf(f)] = [exists |-> TRUE, by |-> f, state |-> "complete"]

====
